---- MODULE Spec2Model ----
(***************************************************************************)
(* Model of src/main.py: the contact-list formatter.                       *)
(*                                                                         *)
(* A Python str is modelled as a sequence of characters, each character a  *)
(* one-element token ("A", " ", "7", ...).  The three Cyrillic letters of  *)
(* the extension marker are written as the tokens "u0434", "u043E" and     *)
(* "u0431" (their code points), because the module is kept in ASCII.       *)
(* Python's 0-based list index k is the TLA+ sequence index k + 1.         *)
(***************************************************************************)
EXTENDS Integers, Sequences, FiniteSets, TLC

VARIABLES
    pc,                 \* position of main(), or of the driver of a pure function
    raw_file,           \* rows of phonebook_raw.csv
    contacts_list,      \* the table main() works on
    i, j,               \* loop indices of check_and_update_duplicate (0-based)
    indexes_to_delete,  \* list built by check_and_update_duplicate
    fault,              \* "none", or the exception that ended the run
    out_file,           \* rows of phonebook.csv; NotWritten until write_csv runs
    old_full_name,      \* argument of format_name
    new_full_name,      \* result of format_name
    phone,              \* argument of format_phone
    formatted,          \* result of format_phone
    applied             \* how many times format_phone was applied

vars == <<pc, raw_file, contacts_list, i, j, indexes_to_delete, fault, out_file,
          old_full_name, new_full_name, phone, formatted, applied>>

pipeline_vars == <<raw_file, contacts_list, i, j, indexes_to_delete, fault, out_file>>
name_vars == <<old_full_name, new_full_name>>
phone_vars == <<phone, formatted, applied>>

(***************************************************************************)
(* Bounds of the model.                                                    *)
(***************************************************************************)
MaxRows == 3        \* rows in phonebook_raw.csv
MaxFields == 3      \* fields handed to format_name
MaxApply == 2       \* successive applications of format_phone

(***************************************************************************)
(* Characters and strings.                                                 *)
(***************************************************************************)
Digit == {"0", "1", "2", "3", "4", "5", "6", "7", "8", "9"}

\* str.split() and the regex class \s: whitespace
Whitespace == {" ", "\t", "\n"}

\* the regex class [ -)] is the code point range U+0020 .. U+0029
SpaceToParen == {" ", "!", "\"", "#", "$", "%", "&", "'", "(", ")"}

RECURSIVE Join(_)
\* " ".join(fields)
Join(fields) ==
    IF fields = <<>> THEN <<>>
    ELSE IF Len(fields) = 1 THEN fields[1]
    ELSE fields[1] \o <<" ">> \o Join(Tail(fields))

RECURSIVE SplitFrom(_, _, _)
\* str.split(): the maximal runs of non-whitespace, scanning from position p
\* with the run cur in progress
SplitFrom(s, p, cur) ==
    IF p > Len(s) THEN (IF cur = <<>> THEN <<>> ELSE <<cur>>)
    ELSE IF s[p] \in Whitespace
         THEN (IF cur = <<>> THEN SplitFrom(s, p + 1, <<>>)
               ELSE <<cur>> \o SplitFrom(s, p + 1, <<>>))
         ELSE SplitFrom(s, p + 1, Append(cur, s[p]))

Split(s) == SplitFrom(s, 1, <<>>)

(***************************************************************************)
(* format_name                                                             *)
(***************************************************************************)
\* a plausible slip: the columns are taken as they are, without join and split
format_name_no_reflow(fields) ==
    [k \in 1..3 |-> IF k <= Len(fields) THEN fields[k] ELSE <<>>]

format_name(fields) ==
    LET full_name == Split(Join(fields))
    IN  [k \in 1..3 |-> IF k <= Len(full_name) THEN full_name[k] ELSE <<>>]

(***************************************************************************)
(* format_phone: the compiled pattern and re.sub                           *)
(***************************************************************************)
InClass(c, cls) ==
    CASE cls = "digit"   -> c \in Digit
      [] cls = "sep"     -> c \in Whitespace \cup {"-"}       \* [\s-]
      [] cls = "open"    -> c \in {"(", " "}                  \* [( ]
      [] cls = "range"   -> c \in SpaceToParen                \* [ -)]
      [] cls = "space"   -> c \in Whitespace                  \* \s
      [] cls = "lparen"  -> c = "("
      [] cls = "rparen"  -> c = ")"
      [] cls = "u0434"   -> c = "u0434"
      [] cls = "u043E"   -> c = "u043E"
      [] cls = "u0431"   -> c = "u0431"
      [] cls = "dot"     -> c # "\n"                          \* .
      [] OTHER           -> FALSE

Star == 1000    \* no upper limit of a quantifier

Item(cls, lo, hi) == [cls |-> cls, lo |-> lo, hi |-> hi]

\* [\s-]*[( ]?(\d{3})[ -)]?[\s-]*(\d{3})[\s-]*(\d{2})[\s-]*(\d{2})
NumberItems ==
    << Item("sep", 0, Star), Item("open", 0, 1), Item("digit", 3, 3),
       Item("range", 0, 1), Item("sep", 0, Star), Item("digit", 3, 3),
       Item("sep", 0, Star), Item("digit", 2, 2),
       Item("sep", 0, Star), Item("digit", 2, 2) >>

\* \s*\(?(u0434 u043E u0431 .)\s*(\d{4})\)?
ExtensionItems ==
    << Item("space", 0, Star), Item("lparen", 0, 1),
       Item("u0434", 1, 1), Item("u043E", 1, 1), Item("u0431", 1, 1), Item("dot", 1, 1),
       Item("space", 0, Star), Item("digit", 4, 4), Item("rparen", 0, 1) >>

RECURSIVE RunLength(_, _, _, _)
\* how many characters of class cls, at most hi, start at position p
RunLength(s, p, cls, hi) ==
    IF hi = 0 \/ p > Len(s) \/ ~InClass(s[p], cls) THEN 0
    ELSE 1 + RunLength(s, p + 1, cls, hi - 1)

RECURSIVE MatchItems(_, _, _, _)
RECURSIVE TryCount(_, _, _, _, _)
\* Greedy match with backtracking of items[k..] at position p: the start
\* position of every item followed by the end of the match, or <<>>.
MatchItems(items, k, s, p) ==
    IF k > Len(items) THEN <<p>>
    ELSE TryCount(items, k, s, p, RunLength(s, p, items[k].cls, items[k].hi))

TryCount(items, k, s, p, c) ==
    IF c < items[k].lo THEN <<>>
    ELSE LET rest == MatchItems(items, k + 1, s, p + c)
         IN  IF rest # <<>> THEN <<p>> \o rest
             ELSE TryCount(items, k, s, p, c - 1)

Slice(s, from, to) == SubSeq(s, from, to - 1)

NoMatch == [ok |-> FALSE]

\* the number part and the optional extension, from position p
MatchNumber(s, p) ==
    LET n == MatchItems(NumberItems, 1, s, p)
    IN  IF n = <<>> THEN NoMatch
        ELSE LET e == MatchItems(ExtensionItems, 1, s, n[11])
             IN  [ok |-> TRUE,
                  g2 |-> Slice(s, n[3], n[4]),
                  g3 |-> Slice(s, n[6], n[7]),
                  g4 |-> Slice(s, n[8], n[9]),
                  g5 |-> Slice(s, n[10], n[11]),
                  g7 |-> IF e = <<>> THEN <<>> ELSE Slice(s, e[3], e[7]),
                  g8 |-> IF e = <<>> THEN <<>> ELSE Slice(s, e[8], e[9]),
                  end |-> IF e = <<>> THEN n[11] ELSE e[10]]

\* pattern_compiled.match at position p: (\+7|8)? is tried before its absence
MatchAt(s, p) ==
    LET plus7 == IF p + 1 <= Len(s) /\ s[p] = "+" /\ s[p + 1] = "7"
                 THEN MatchNumber(s, p + 2) ELSE NoMatch
        eight == IF p <= Len(s) /\ s[p] = "8"
                 THEN MatchNumber(s, p + 1) ELSE NoMatch
    IN  IF plus7.ok THEN plus7
        ELSE IF eight.ok THEN eight
        ELSE MatchNumber(s, p)

\* new_pattern: +7(\2)\3-\4-\5 \7\8 ; a group that took no part is empty
Template(m) ==
    <<"+", "7", "(">> \o m.g2 \o <<")">> \o m.g3 \o <<"-">> \o m.g4 \o <<"-">> \o m.g5
        \o <<" ">> \o m.g7 \o m.g8

RECURSIVE Sub(_, _)
\* pattern_compiled.sub(new_pattern, s), scanning from position p
Sub(s, p) ==
    IF p > Len(s) THEN <<>>
    ELSE LET m == MatchAt(s, p)
         IN  IF m.ok THEN Template(m) \o Sub(s, m.end)
             ELSE <<s[p]>> \o Sub(s, p + 1)

format_phone(s) == Sub(s, 1)

(***************************************************************************)
(* Lists, 0-based as in the source.                                        *)
(***************************************************************************)
At(list, k) == list[k + 1]

SetAt(list, k, v) == [list EXCEPT ![k + 1] = v]

None == <<>>        \* an argument left at None

Some(x) == <<x>>    \* an argument given as the integer x

Ok(list) == [list |-> list, fault |-> "none"]

Failed(list, exc) == [list |-> list, fault |-> exc]

(***************************************************************************)
(* format_contact_list                                                     *)
(***************************************************************************)
RECURSIVE AssignColumns(_, _, _)
\* contact[0], contact[1], contact[2] = values: assigned left to right from
\* column k on; an assignment past the end of the row raises IndexError
AssignColumns(contact, values, k) ==
    IF k > 2 THEN Ok(contact)
    ELSE IF k >= Len(contact) THEN Failed(contact, "IndexError")
    ELSE AssignColumns(SetAt(contact, k, values[k + 1]), values, k + 1)

\* the body of the loop of format_contact_list
FormatContact(contact) ==
    LET named == AssignColumns(contact, format_name(SubSeq(contact, 1, 3)), 0)
    IN  IF named.fault # "none" THEN named
        ELSE IF Len(contact) <= 5 THEN Failed(named.list, "IndexError")
        ELSE Ok(SetAt(named.list, 5, format_phone(At(named.list, 5))))

RECURSIVE FormatFrom(_, _)
FormatFrom(list, k) ==
    IF k >= Len(list) THEN Ok(list)
    ELSE LET r == FormatContact(At(list, k))
         IN  IF r.fault # "none" THEN Failed(SetAt(list, k, r.list), r.fault)
             ELSE FormatFrom(SetAt(list, k, r.list), k + 1)

format_contact_list(list) == FormatFrom(list, 0)

(***************************************************************************)
(* merging_contact_lines                                                   *)
(***************************************************************************)
RECURSIVE MergeColumns(_, _, _, _, _)
\* for column in range(column, end_column): ...
MergeColumns(list, row_origin, row_duplicate, column, end_column) ==
    IF column >= end_column THEN Ok(list)
    ELSE IF column >= Len(At(list, row_duplicate)) THEN Failed(list, "IndexError")
    ELSE IF At(At(list, row_duplicate), column) # <<>>
         THEN MergeColumns(
                  SetAt(list, row_origin,
                        SetAt(At(list, row_origin), column,
                              At(At(list, row_duplicate), column))),
                  row_origin, row_duplicate, column + 1, end_column)
         ELSE MergeColumns(list, row_origin, row_duplicate, column + 1, end_column)

RECURSIVE OverwriteColumns(_, _, _, _, _)
\* a plausible slip: the test `if contacts_list[row_duplicate][column]` is lost
OverwriteColumns(list, row_origin, row_duplicate, column, end_column) ==
    IF column >= end_column THEN Ok(list)
    ELSE IF column >= Len(At(list, row_duplicate)) THEN Failed(list, "IndexError")
    ELSE OverwriteColumns(
             SetAt(list, row_origin,
                   SetAt(At(list, row_origin), column,
                         At(At(list, row_duplicate), column))),
             row_origin, row_duplicate, column + 1, end_column)

merging_overwrites_blank(list, row_origin, row_duplicate, start_column, end_column) ==
    LET start == IF start_column = None \/ start_column[1] < 0 THEN 0 ELSE start_column[1]
        end == IF end_column = None \/ end_column[1] > Len(At(list, row_origin))
               THEN Len(At(list, row_origin)) ELSE end_column[1]
    IN  IF start > end THEN Failed(list, "IndexError")
        ELSE OverwriteColumns(list, row_origin, row_duplicate, start, end)

merging_contact_lines(list, row_origin, row_duplicate, start_column, end_column) ==
    LET start == IF start_column = None \/ start_column[1] < 0 THEN 0 ELSE start_column[1]
        end == IF end_column = None \/ end_column[1] > Len(At(list, row_origin))
               THEN Len(At(list, row_origin)) ELSE end_column[1]
    IN  IF start > end THEN Failed(list, "IndexError")
        ELSE MergeColumns(list, row_origin, row_duplicate, start, end)

(***************************************************************************)
(* removing_duplicates                                                     *)
(***************************************************************************)
RemoveAt(s, k) == SubSeq(s, 1, k) \o SubSeq(s, k + 2, Len(s))

RECURSIVE SortedReverse(_)
\* sorted(indexes, reverse=True)
SortedReverse(indexes) ==
    IF indexes = <<>> THEN <<>>
    ELSE LET top == CHOOSE m \in {indexes[k] : k \in 1..Len(indexes)} :
                        \A k \in 1..Len(indexes) : indexes[k] <= m
             at == CHOOSE k \in 1..Len(indexes) : indexes[k] = top
         IN  <<top>> \o SortedReverse(RemoveAt(indexes, at - 1))

RECURSIVE DeleteEach(_, _)
\* for index in indexes: del list[index]
DeleteEach(list, indexes) ==
    IF indexes = <<>> THEN Ok(list)
    ELSE IF Head(indexes) >= Len(list) THEN Failed(list, "IndexError")
    ELSE DeleteEach(RemoveAt(list, Head(indexes)), Tail(indexes))

removing_duplicates(list, indexes) == DeleteEach(list, SortedReverse(indexes))

(***************************************************************************)
(* check_and_update_duplicate: the test of the loop body and the loops     *)
(***************************************************************************)
\* a plausible slip: an empty patronymic no longer matches any patronymic
IsDuplicate_strict(list, a, b) ==
    /\ At(At(list, a), 0) = At(At(list, b), 0)
    /\ At(At(list, a), 1) = At(At(list, b), 1)
    /\ At(At(list, a), 2) = At(At(list, b), 2)

IsDuplicate(list, a, b) ==
    /\ At(At(list, a), 0) = At(At(list, b), 0)
    /\ At(At(list, a), 1) = At(At(list, b), 1)
    /\ \/ At(At(list, a), 2) = At(At(list, b), 2)
       \/ At(At(list, a), 2) = <<>>
       \/ At(At(list, b), 2) = <<>>

\* the ranges are exhausted: i = j = n
FirstPair(n) == IF n >= 2 THEN <<0, 1>> ELSE <<n, n>>

\* a plausible slip: the inner loop starts one row too late
NextPair_skips(a, b, n) ==
    IF b + 1 < n THEN <<a, b + 1>>
    ELSE IF a + 3 < n THEN <<a + 1, a + 3>>
    ELSE <<n, n>>

\* the pair the two for loops visit after (a, b)
NextPair(a, b, n) ==
    IF b + 1 < n THEN <<a, b + 1>>
    ELSE IF a + 2 < n THEN <<a + 1, a + 2>>
    ELSE <<n, n>>

(***************************************************************************)
(* Inputs.                                                                 *)
(***************************************************************************)
Iv == <<"I", "v">>

Pe == <<"P", "e">>

NameFields ==
    { <<>>, Iv, Pe, <<" ">>, Iv \o <<" ">> \o Pe,
      <<"\t", "A", " ", " ", "B", " ">> \o Iv }

NameInputs == UNION {[1..n -> NameFields] : n \in 0..MaxFields}

Area == <<"9", "1", "6">>

Exchange == <<"1", "2", "3">>

Ext1234 == <<"u0434", "u043E", "u0431", ".", "1", "2", "3", "4">>

Number(prefix, open, close, sep, ext, tail) ==
    prefix \o open \o Area \o close \o Exchange \o sep \o <<"4", "5">> \o sep
        \o <<"6", "7">> \o ext \o tail

PhoneInputs ==
    { Number(prefix, open, close, sep, ext, tail) :
        prefix \in {<<>>, <<"+", "7">>, <<"8">>},
        open \in {<<>>, <<" ">>, <<"(">>, <<" ", "(">>},
        close \in {<<>>, <<")">>, <<")", " ">>, <<"-">>},
        sep \in {<<>>, <<" ">>, <<"-">>},
        ext \in { <<>>, <<" ">> \o Ext1234, <<" ", "(">> \o Ext1234 \o <<")">>,
                  <<"u0434", "u043E", "u0431", " ", "1", "2", "3", "4">>,
                  <<" ", "u0434", "u043E", "u0431", ".", "1", "2", "3">> },
        tail \in {<<>>, <<"x">>} }
    \cup
    { <<>>, <<"a", "b", "c">>, <<"8">>, <<"1", "2", "3", "4", "5", "6", "7", "8", "9">>,
      <<"8", "9", "1", "6", "1", "2", "3", "4", "5", "6">>,
      <<"8", " ", "9", "1", "6", " ", "1", "2", "3", " ", "4", "5", " ", "6", "7">>,
      Area \o Exchange \o <<"4", "5", "6", "7">> \o <<",", " ">>
          \o <<"8">> \o Area \o Exchange \o <<"4", "5", "6", "8">> }

Phone1 == <<"8", "9", "1", "6", "1", "2", "3", "4", "5", "6", "7">>

Phone2 == <<"9", "1", "6", " ", "1", "2", "3", "-", "4", "5", "-", "6", "8">>

Phone3 == <<"+", "7", "(", "9", "1", "6", ")", "1", "2", "3", "4", "5", "6", "9">>

LastA == <<"A">>

FirstB == <<"B">>

\* rows of phonebook_raw.csv: lastname, firstname, surname, organization,
\* position, phone (, email)
RawRows ==
    { <<LastA, FirstB, <<>>, <<>>, <<>>, Phone1>>,
      <<LastA \o <<" ">> \o FirstB, <<>>, <<>>, <<"x">>, <<>>, Phone2>>,
      <<LastA, FirstB, <<>>, <<>>, <<>>, Phone3>>,
      <<LastA, FirstB, <<"P">>, <<>>, <<>>, <<>>>>,
      <<LastA, FirstB \o <<" ", "P">>, <<>>, <<>>, <<"e">>, <<>>>>,
      <<LastA, FirstB, <<"Q">>, <<"y">>, <<>>, Phone3>>,
      <<LastA, <<"C">>, <<>>, <<>>, <<>>, Phone1>>,
      <<LastA, FirstB, <<>>, <<>>, <<>>>>,
      <<LastA, FirstB, <<>>, <<>>, <<>>, <<>>, <<"z">>>> }

RawFiles == UNION {[1..n -> RawRows] : n \in 0..MaxRows}

NotWritten == [written |-> FALSE, rows |-> <<>>]

Written(rows) == [written |-> TRUE, rows |-> rows]

(***************************************************************************)
(* main(): read_csv, format_contact_list, check_and_update_duplicate,      *)
(* write_csv.                                                              *)
(***************************************************************************)
IdleName == old_full_name = <<>> /\ new_full_name = <<>>

IdlePhone == phone = <<>> /\ formatted = <<>> /\ applied = 0

IdlePipeline ==
    /\ raw_file = <<>> /\ contacts_list = <<>> /\ i = 0 /\ j = 0
    /\ indexes_to_delete = <<>> /\ fault = "none" /\ out_file = NotWritten

Init ==
    /\ pc = "read"
    /\ raw_file \in RawFiles
    /\ contacts_list = <<>>
    /\ i = 0 /\ j = 0
    /\ indexes_to_delete = <<>>
    /\ fault = "none"
    /\ out_file = NotWritten
    /\ IdleName /\ IdlePhone

\* a plausible slip: the exception is caught and the run goes on to write_csv
Raise_swallowed(exc) == pc' = "write" /\ fault' = exc

\* an exception that nothing catches ends main()
Raise(exc) == pc' = "aborted" /\ fault' = exc

ReadCsv ==
    /\ pc = "read"
    /\ contacts_list' = raw_file
    /\ pc' = "format"
    /\ UNCHANGED <<raw_file, i, j, indexes_to_delete, fault, out_file>>
    /\ UNCHANGED <<name_vars, phone_vars>>

FormatContactList ==
    /\ pc = "format"
    /\ LET r == format_contact_list(contacts_list)
       IN  /\ contacts_list' = r.list
           /\ IF r.fault # "none"
              THEN Raise(r.fault) /\ UNCHANGED <<i, j, indexes_to_delete>>
              ELSE /\ pc' = "scan"
                   /\ i' = FirstPair(Len(contacts_list))[1]
                   /\ j' = FirstPair(Len(contacts_list))[2]
                   /\ indexes_to_delete' = <<>>
                   /\ UNCHANGED fault
    /\ UNCHANGED <<raw_file, out_file, name_vars, phone_vars>>

AtPair == pc = "scan" /\ i < Len(contacts_list)

Advance ==
    /\ i' = NextPair(i, j, Len(contacts_list))[1]
    /\ j' = NextPair(i, j, Len(contacts_list))[2]

\* the loop body when the test holds
MergeDuplicate ==
    /\ AtPair
    /\ IsDuplicate(contacts_list, i, j)
    /\ LET r == merging_contact_lines(contacts_list, i, j, Some(2), None)
       IN  /\ contacts_list' = r.list
           /\ IF r.fault # "none"
              THEN Raise(r.fault) /\ UNCHANGED <<i, j, indexes_to_delete>>
              ELSE /\ indexes_to_delete' = Append(indexes_to_delete, j)
                   /\ Advance
                   /\ UNCHANGED <<pc, fault>>
    /\ UNCHANGED <<raw_file, out_file, name_vars, phone_vars>>

\* the loop body when the test fails
SkipPair ==
    /\ AtPair
    /\ ~IsDuplicate(contacts_list, i, j)
    /\ Advance
    /\ UNCHANGED <<pc, raw_file, contacts_list, indexes_to_delete, fault, out_file>>
    /\ UNCHANGED <<name_vars, phone_vars>>

\* after the loops: removing_duplicates, then the return to main()
RemovingDuplicates ==
    /\ pc = "scan" /\ i >= Len(contacts_list)
    /\ LET r == removing_duplicates(contacts_list, indexes_to_delete)
       IN  /\ contacts_list' = r.list
           /\ IF r.fault # "none" THEN Raise(r.fault)
              ELSE pc' = "write" /\ UNCHANGED fault
    /\ UNCHANGED <<raw_file, i, j, indexes_to_delete, out_file, name_vars, phone_vars>>

WriteCsv ==
    /\ pc = "write"
    /\ out_file' = Written(contacts_list)
    /\ pc' = "done"
    /\ UNCHANGED <<raw_file, contacts_list, i, j, indexes_to_delete, fault>>
    /\ UNCHANGED <<name_vars, phone_vars>>

Next ==
    \/ ReadCsv
    \/ FormatContactList
    \/ MergeDuplicate
    \/ SkipPair
    \/ RemovingDuplicates
    \/ WriteCsv

Spec == Init /\ [][Next]_vars

(***************************************************************************)
(* format_name applied to one group of fields.                             *)
(***************************************************************************)
InitName ==
    /\ pc = "name"
    /\ old_full_name \in NameInputs
    /\ new_full_name = <<>>
    /\ IdlePipeline /\ IdlePhone

FormatName ==
    /\ pc = "name"
    /\ new_full_name' = format_name(old_full_name)
    /\ pc' = "name_done"
    /\ UNCHANGED <<old_full_name, pipeline_vars, phone_vars>>

NextName == FormatName

SpecName == InitName /\ [][NextName]_vars

(***************************************************************************)
(* format_phone applied to one string, and again to its own result.        *)
(***************************************************************************)
InitPhone ==
    /\ pc = "phone"
    /\ phone \in PhoneInputs
    /\ formatted = <<>>
    /\ applied = 0
    /\ IdlePipeline /\ IdleName

FormatPhone ==
    /\ pc = "phone"
    /\ formatted' = format_phone(phone)
    /\ applied' = 1
    /\ pc' = "phone_done"
    /\ UNCHANGED <<phone, pipeline_vars, name_vars>>

FormatPhoneAgain ==
    /\ pc = "phone_done"
    /\ applied < MaxApply
    /\ phone' = formatted
    /\ formatted' = format_phone(formatted)
    /\ applied' = applied + 1
    /\ UNCHANGED <<pc, pipeline_vars, name_vars>>

NextPhone == FormatPhone \/ FormatPhoneAgain

SpecPhone == InitPhone /\ [][NextPhone]_vars

(***************************************************************************)
(* Properties.                                                             *)
(***************************************************************************)
Recorded == {indexes_to_delete[k] : k \in 1..Len(indexes_to_delete)}

\* the rows of list whose index is not in recorded, in their order
Survivors(list, recorded) ==
    LET keep == {k \in 0..(Len(list) - 1) : k \notin recorded}
        Nth(m) == CHOOSE k \in keep : Cardinality({x \in keep : x < k}) = m - 1
    IN  [m \in 1..Cardinality(keep) |-> At(list, Nth(m))]

\* the identity rule of two rows, as the specification words it
IdentityRule(origin, duplicate) ==
    /\ origin[1] = duplicate[1]
    /\ origin[2] = duplicate[2]
    /\ (origin[3] = duplicate[3] \/ origin[3] = <<>> \/ duplicate[3] = <<>>)

EqualWidth(list) == \A a, b \in 1..Len(list) : Len(list[a]) = Len(list[b])

\* the loop body merged row j into row i and recorded j
Merged == pc = "scan" /\ indexes_to_delete' = Append(indexes_to_delete, j)

ScanFinished == pc = "scan" /\ i >= Len(contacts_list)

\* C1: removing_duplicates, called with the indices recorded by the scan,
\* finishes without a fault and leaves exactly the rows whose index was not
\* recorded, in their original order (so the row count drops by the number of
\* distinct recorded indices).
C1_CompactorRemovesExactlyRecorded ==
    [][ScanFinished =>
          /\ fault' = "none"
          /\ contacts_list' = Survivors(contacts_list, Recorded)
          /\ Len(contacts_list') = Len(contacts_list) - Cardinality(Recorded)]_vars

\* three rows, same last and first name, no patronymic, three different phones
ThreeOfOnePerson ==
    /\ Len(raw_file) = 3
    /\ \A k \in 1..3 :
          /\ Len(raw_file[k]) = 6
          /\ format_name(SubSeq(raw_file[k], 1, 3)) = <<LastA, FirstB, <<>>>>
          /\ raw_file[k][6] # <<>>
    /\ Cardinality({format_phone(raw_file[k][6]) : k \in 1..3}) = 3

\* C2: a run on three rows of one person without patronymic and with three
\* different phones ends in one row that carries the phone of the last row.
C2_ThreeRowsCollapse ==
    (ThreeOfOnePerson /\ pc \in {"write", "done", "aborted"}) =>
        /\ fault = "none"
        /\ Len(contacts_list) = 1
        /\ contacts_list[1][6] = format_phone(raw_file[3][6])

\* C3: a merge of row j into row i of the same width gives the origin, in
\* every column from 2 on, the duplicate's value where that is non-empty and
\* keeps the origin's value otherwise; columns 0 and 1 of the origin and the
\* whole duplicate stay as they were.
C3_MergePolicy ==
    [][(Merged /\ Len(At(contacts_list, i)) = Len(At(contacts_list, j))) =>
          LET origin == At(contacts_list, i)
              duplicate == At(contacts_list, j)
              after == At(contacts_list', i)
          IN  /\ Len(after) = Len(origin)
              /\ \A c \in 0..(Len(origin) - 1) :
                    At(after, c) = IF c >= 2 /\ At(duplicate, c) # <<>>
                                   THEN At(duplicate, c) ELSE At(origin, c)
              /\ At(contacts_list', j) = duplicate]_vars

\* a merge has filled the patronymic of row 0 from row 1 and kept the
\* organization of row 0, which row 1 leaves empty
C3_Witness ==
    /\ pc = "scan" /\ indexes_to_delete = <<1>>
    /\ At(At(raw_file, 0), 2) = <<>>
    /\ At(At(contacts_list, 1), 2) # <<>>
    /\ At(At(contacts_list, 0), 2) = At(At(contacts_list, 1), 2)
    /\ At(At(contacts_list, 0), 3) # <<>>
    /\ At(At(contacts_list, 1), 3) = <<>>

Pairs(n) == {p \in (0..(n - 1)) \X (0..(n - 1)) : p[1] < p[2]}

Before(p, q) == p[1] < q[1] \/ (p[1] = q[1] /\ p[2] < q[2])

\* C4: the scan visits the pairs (i, j), i < j, one after the other in
\* ascending order of i and then of j, none skipped and none repeated; at each
\* pair it merges j into i and records j exactly when the identity rule holds
\* of the two rows as they are at that moment (whether or not i is recorded
\* already), and otherwise changes nothing.
C4_ScanOrderAndRule ==
    [][/\ (pc = "format" /\ pc' = "scan") =>
             LET n == Len(contacts_list')
             IN  IF Pairs(n) = {} THEN i' >= n
                 ELSE /\ <<i', j'>> \in Pairs(n)
                      /\ \A q \in Pairs(n) : q = <<i', j'>> \/ Before(<<i', j'>>, q)
       /\ (pc = "scan" /\ i < Len(contacts_list) /\ fault' = "none") =>
             LET n == Len(contacts_list)
                 later == {q \in Pairs(n) : Before(<<i, j>>, q)}
             IN  /\ <<i, j>> \in Pairs(n)
                 /\ IF IdentityRule(At(contacts_list, i), At(contacts_list, j))
                    THEN Merged
                    ELSE /\ contacts_list' = contacts_list
                         /\ indexes_to_delete' = indexes_to_delete
                 /\ Len(contacts_list') = n
                 /\ IF later = {} THEN i' >= n
                    ELSE /\ <<i', j'>> \in later
                         /\ \A q \in later : q = <<i', j'>> \/ Before(<<i', j'>>, q)]_vars

\* row 0 took its patronymic from row 1, so row 2 with another patronymic was
\* compared with the updated row 0 and not merged; row 1, recorded, is now the
\* origin of the pair (1, 2)
C4_Witness ==
    /\ pc = "scan" /\ i = 1 /\ j = 2
    /\ indexes_to_delete = <<1>>
    /\ At(At(raw_file, 0), 2) = <<>>
    /\ At(At(contacts_list, 0), 2) # <<>>
    /\ At(At(contacts_list, 2), 2) # <<>>
    /\ At(At(contacts_list, 0), 2) # At(At(contacts_list, 2), 2)
    /\ At(At(contacts_list, 0), 0) = At(At(contacts_list, 2), 0)
    /\ At(At(contacts_list, 0), 1) = At(At(contacts_list, 2), 1)

\* C5: format_phone applied to its own result changes nothing.
C5_Idempotent == applied >= 2 => formatted = phone

\* the template as the specification words it: the space, the marker and the
\* extension follow only when an extension was captured
CanonicalTemplate(m) ==
    <<"+", "7", "(">> \o m.g2 \o <<")">> \o m.g3 \o <<"-">> \o m.g4 \o <<"-">> \o m.g5
        \o (IF m.g8 # <<>> THEN <<" ">> \o m.g7 \o m.g8 ELSE <<>>)

RECURSIVE CanonicalSub(_, _)
CanonicalSub(s, p) ==
    IF p > Len(s) THEN <<>>
    ELSE LET m == MatchAt(s, p)
         IN  IF m.ok THEN CanonicalTemplate(m) \o CanonicalSub(s, m.end)
             ELSE <<s[p]>> \o CanonicalSub(s, p + 1)

\* C6: every matched substring is rewritten to +7(AREA)EXCH-GG-GG, followed by
\* a space, the marker and the extension only when an extension was captured;
\* "8 916 123 45 67" becomes "+7(916)123-45-67"; a string without a match is
\* returned as it is.
C6_OutputTemplate ==
    applied = 1 =>
        /\ formatted = CanonicalSub(phone, 1)
        /\ (phone = <<"8", " ", "9", "1", "6", " ", "1", "2", "3", " ", "4", "5",
                      " ", "6", "7">>) =>
               formatted = <<"+", "7", "(", "9", "1", "6", ")", "1", "2", "3", "-",
                             "4", "5", "-", "6", "7">>

\* the maximal runs of non-whitespace of s, as pairs of positions
Runs(s) ==
    {r \in (1..Len(s)) \X (1..Len(s)) :
        /\ r[1] <= r[2]
        /\ \A k \in r[1]..r[2] : s[k] \notin Whitespace
        /\ (r[1] = 1 \/ s[r[1] - 1] \in Whitespace)
        /\ (r[2] = Len(s) \/ s[r[2] + 1] \in Whitespace)}

\* token k (from 0) of s, or the empty string when s has no such token
Token(s, k) ==
    IF Cardinality(Runs(s)) <= k THEN <<>>
    ELSE LET r == CHOOSE r \in Runs(s) :
                      Cardinality({q \in Runs(s) : q[1] < r[1]}) = k
         IN  SubSeq(s, r[1], r[2])

\* C7: format_name returns exactly 3 fields, the tokens 0, 1 and 2 of the
\* fields joined by single spaces, an empty string where there is no such
\* token; an empty column in the middle leaves no gap.
C7_NameTokens ==
    pc = "name_done" =>
        /\ Len(new_full_name) = 3
        /\ \A k \in 0..2 : At(new_full_name, k) = Token(Join(old_full_name), k)
        /\ old_full_name = <<Iv, <<>>, Pe>> => new_full_name = <<Iv, Pe, <<>>>>

C7_Witness ==
    /\ pc = "name_done"
    /\ old_full_name = <<Iv, <<>>, Pe>>
    /\ new_full_name = <<Iv, Pe, <<>>>>

\* C8: a merge never writes into a row that is recorded for removal.
C8_OriginSurvives == [][Merged => i \notin Recorded]_vars

\* C9: phonebook.csv is written only by a run in which no stage faulted, and
\* it then holds the table as compaction left it; a run that faulted is
\* aborted and has written nothing.
C9_NoPartialOutput ==
    /\ out_file.written =>
          /\ fault = "none" /\ pc = "done"
          /\ format_contact_list(raw_file).fault = "none"
          /\ i >= Len(raw_file)
          /\ out_file.rows = contacts_list
    /\ pc = "write" => fault = "none"
    /\ fault # "none" => (pc = "aborted" /\ ~out_file.written)

\* a row without column 5 has ended the run before anything was written
C9_Witness ==
    /\ pc = "aborted" /\ fault = "IndexError"
    /\ \E k \in 1..Len(raw_file) : Len(raw_file[k]) < 6
    /\ ~out_file.written

\* C10: the table check_and_update_duplicate returns, given rows of equal
\* width, holds no two rows that satisfy the identity rule with each other.
C10_NoDuplicatesLeft ==
    (pc \in {"write", "done"} /\ EqualWidth(raw_file)) =>
        \A a, b \in 1..Len(contacts_list) :
            a # b => ~IdentityRule(contacts_list[a], contacts_list[b])

\* a merge took place and two rows of the same last and first name remain
C10_Witness ==
    /\ pc = "write" /\ EqualWidth(raw_file)
    /\ indexes_to_delete # <<>>
    /\ \E a, b \in 1..Len(contacts_list) :
          /\ a # b
          /\ contacts_list[a][1] = contacts_list[b][1]
          /\ contacts_list[a][2] = contacts_list[b][2]

====
